---------------------------- MODULE Spec2Model ----------------------------
(***************************************************************************)
(* Model of src/src/Copyleaks.ts: the Copyleaks client's retrying          *)
(* `request` executor, the `verifyAuthToken` guard and the endpoint        *)
(* operations that use them.                                               *)
(*                                                                         *)
(* Instants are milliseconds (Date.getTime()), counted from the instant of *)
(* the modelled time zone's offset transition.  A transport outcome is a   *)
(* record [kind, hasResponse, status, code, attempt]: kind "response" is   *)
(* what `await requester(config)` returns, kind "error" what it raises     *)
(* (error.response present iff hasResponse, error.response.status, and     *)
(* error.code); attempt is the number of the transport call that produced  *)
(* it, which gives every outcome object its own identity.                  *)
(***************************************************************************)
EXTENDS Integers, Sequences, FiniteSets, TLC

VARIABLES
    tz,             \* the process's time zone (what Date's local-time methods use)
    now,            \* now[c]: Date.now() when call c is invoked
    op,             \* op[c]: the method call c invokes
    token,          \* token[c]: the CopyleaksAuthToken passed, as its '.expires' instant
    margin,         \* margin[c]: timeUntilExpiry of the verifyAuthToken call
    maxRetries,     \* maxRetries[c]: the `retries` argument of the outermost request()
    initialBackoff, \* initialBackoff[c]: the `backoff` argument of the outermost request()
    config,         \* config[c]: the `config` argument of the current request() frame
    requester,      \* requester[c]: the `requester` argument of the current request() frame
    seen,           \* seen[c]: how request() reads each transport outcome call c has had
    sent,           \* sent[c]: what each requester(config) call so far was made on and with
    pc,             \* pc[c]: "idle" | "start" | "inflight" | "backoff" | "done"
    retries,        \* retries[c]: `retries` of the current request() frame
    backoff,        \* backoff[c]: `backoff` of the current request() frame
    timer,          \* timer[c]: delay of the pending setTimeout, 0 when none
    attempts,       \* attempts[c]: number of requester(config) calls made so far
    delays,         \* delays[c]: the setTimeout delays waited so far, in order
    lastOutcome,    \* lastOutcome[c]: what the latest requester(config) call produced
    allRetryable,   \* allRetryable[c]: every error raised so far was of the retryable classes
    settled,        \* settled[c]: how the outermost request() promise settled
    result          \* result[c]: how the invoked method ended for its caller

vars == <<tz, now, op, token, margin, maxRetries, initialBackoff, config, requester, sent, seen, pc, retries,
          backoff, timer, attempts, delays, lastOutcome, allRetryable, settled, result>>

(***************************************************************************)
(* Bounds of the model                                                     *)
(***************************************************************************)
MaxRetries == 3      \* a direct request() call is given retries in 0..MaxRetries
MaxMargin == 6       \* a direct verifyAuthToken() call is given 0..MaxMargin minutes

Calls == {1, 2}

(***************************************************************************)
(* Program constants                                                       *)
(***************************************************************************)
DefaultRetries == 10
DefaultBackoff == 2000
DefaultMargin == 5
MsPerMinute == 60000

(***************************************************************************)
(* Time: Date's local-time arithmetic (ECMA-262 LocalTime and UTC)         *)
(***************************************************************************)
\* A time zone with one offset transition: local time = instant + before for
\* instants earlier than the transition, instant + after from it on.
ZoneUTC == [name |-> "UTC", transition |-> 0, before |-> 0, after |-> 0]
ZoneFallBack ==
    [name |-> "fall-back", transition |-> 0, before |-> 60 * MsPerMinute, after |-> 0]
ZoneSpringForward ==
    [name |-> "spring-forward", transition |-> 0, before |-> 0, after |-> 60 * MsPerMinute]
Zones == {ZoneUTC, ZoneFallBack, ZoneSpringForward}

Offset(z, t) == IF t < z.transition THEN z.before ELSE z.after

\* LocalTime(t): the local time value of instant t.
LocalTime(z, t) == t + Offset(z, t)

\* UTC(tlocal): the instant of a local time value.  A local time that occurs
\* twice is read as its earlier instant; one that is skipped is read with the
\* offset in force before the transition.
UTC(z, tlocal) ==
    LET t1 == tlocal - z.before
        t2 == tlocal - z.after
        ok1 == t1 < z.transition
        ok2 == t2 >= z.transition
    IN  IF ok1 /\ ok2 THEN (IF t1 <= t2 THEN t1 ELSE t2)
        ELSE IF ok1 THEN t1
        ELSE IF ok2 THEN t2
        ELSE t1

\* date.setMinutes(date.getMinutes() + timeUntilExpiry) on date = new Date(t):
\* the minutes field of the local time is raised and the result read back.
SetMinutesAhead(z, t, minutes) == UTC(z, LocalTime(z, t) + minutes * MsPerMinute)

(***************************************************************************)
(* verifyAuthToken                                                         *)
(***************************************************************************)
\* new Date(authToken['.expires']).getTime(): the instant the token names.
ExpiresDate(authToken) == authToken.expires

\* TRUE iff verifyAuthToken(authToken, timeUntilExpiry) throws AuthExipredException
\* when Date.now() = t in time zone z.
verifyAuthTokenThrows(z, t, authToken, timeUntilExpiry) ==
    ExpiresDate(authToken) <= SetMinutesAhead(z, t, timeUntilExpiry)

(***************************************************************************)
(* The transport (an AxiosInstance) and its outcomes                       *)
(***************************************************************************)
NoOutcome ==
    [kind |-> "none", hasResponse |-> FALSE, status |-> 0, code |-> "", attempt |-> 0]

Response(s, k) ==
    [kind |-> "response", hasResponse |-> TRUE, status |-> s, code |-> "", attempt |-> k]

\* An error raised with a response attached (error.response.status = s).
ResponseError(s, k) ==
    [kind |-> "error", hasResponse |-> TRUE, status |-> s,
     code |-> "ERR_BAD_RESPONSE", attempt |-> k]

\* An error raised with no response (error.response undefined), error.code = cd.
NetworkError(cd, k) ==
    [kind |-> "error", hasResponse |-> FALSE, status |-> 0, code |-> cd, attempt |-> k]

UnderMaintenanceStatus == 512
RateLimitStatus == 513

ResponseStatuses == {199, 200, 299, 300, 404, 429, 500, UnderMaintenanceStatus, RateLimitStatus}
ErrorStatuses == {404, 429, 500, 502, 503}
NetworkCodes == {"ETIMEDOUT", "ENOTFOUND"}

\* What the k-th requester(config) call can produce.
TransportOutcomes(k) ==
    {Response(s, k) : s \in ResponseStatuses}
        \cup {ResponseError(s, k) : s \in ErrorStatuses}
        \cup {NetworkError(cd, k) : cd \in NetworkCodes}

(***************************************************************************)
(* utils: the status predicates                                            *)
(***************************************************************************)
isSuccessStatusCode(status) == status >= 200 /\ status <= 299
isUnderMaintenanceResponse(status) == status = UnderMaintenanceStatus
isRateLimitResponse(status) == status = RateLimitStatus

(***************************************************************************)
(* How a call ends: what request() settled with, what the caller gets      *)
(***************************************************************************)
Pending == [kind |-> "pending", exc |-> "", payload |-> NoOutcome]

\* The method returned; payload is the response handed back (NoOutcome for a
\* bare `return;`).
Returned(payload) == [kind |-> "returned", exc |-> "", payload |-> payload]

\* `throw new <exc>(payload)`: CommandException carries the response, Error
\* carries its cause; the other exceptions carry nothing.
Thrown(exc, payload) == [kind |-> "thrown", exc |-> exc, payload |-> payload]

\* `throw error`: the thrown value is the transport's error object itself.
ThrownAsIs(error) == [kind |-> "thrown", exc |-> "AxiosError", payload |-> error]

(***************************************************************************)
(* request(config, requester, retries = 10, backoff = 2000)                *)
(***************************************************************************)
RetryStatuses == {429, 500, 502}

\* Variants of Exhausted: the test off by one; the test left out.
ExhaustedBelowZero(r) == r < 0
ExhaustedNever(r) == FALSE

\* if (retries < 1) throw error;
Exhausted(r) == r < 1

\* Variants of isRetryable: 429 left out of the list; every error that
\* carries a response retried; 404 added to the list.
isRetryableWithout429(error) ==
    error.hasResponse /\ (error.status \in {500, 502} \/ error.code = "ETIMEDOUT")
isRetryableAnyResponse(error) == error.hasResponse
isRetryableWith404(error) ==
    error.hasResponse /\ (error.status \in {404, 429, 500, 502} \/ error.code = "ETIMEDOUT")

\* error.response && ([429, 500, 502].includes(error.response.status)
\*                    || error.code === 'ETIMEDOUT')
isRetryable(error) ==
    error.hasResponse /\ (error.status \in RetryStatuses \/ error.code = "ETIMEDOUT")

\* Variant of NextBackoff: the backoff passed on unchanged.
NextBackoffKept(b) == b

\* Variant of PassRequester: the argument left out of the recursive call, so
\* that the default, this.api, is used.
PassRequesterDefault(r) == "api"

\* this.request(config, requester, ...): the recursive call is given the same
\* config object and the same requester.
PassConfig(cfg) == cfg
PassRequester(r) == r

\* Variant of UpdateOwn: the retry state kept in one place for the whole
\* client, so that writing it for one call writes it for all.
UpdateShared(f, c, v) == [d \in Calls |-> v]

\* `retries` and `backoff` are parameters of request(): each invocation, and
\* each recursive call of it, has its own, and binding them for call c binds
\* nothing of another call.
UpdateOwn(f, c, v) == [f EXCEPT ![c] = v]

\* Variant of Suspends: a wait that blocks the thread, and so every call.
SuspendsAll(c, d) == TRUE

\* `await setTimeout(backoff)` in call c suspends call d: the awaited promise
\* parks the async function that awaits it and nothing else.
Suspends(c, d) == c = d

\* How the try/catch of request() reads a transport outcome: a response it
\* returns, an error its test accepts for a retry, or another error.
OutcomeClass(out) ==
    IF out.kind = "response" THEN "response"
    ELSE IF isRetryable(out) THEN "retryable" ELSE "other"

\* Variant of NextRetries: the counter passed on without the decrement.
NextRetriesKept(r) == r

\* this.request(config, requester, retries - 1, backoff * 2)
NextRetries(r) == r - 1
NextBackoff(b) == b * 2

\* Variant of ReturnAwaited: the `return` missing, so request() returns undefined.
ReturnAwaitedDropped(response) == Returned(NoOutcome)

\* return await requester(config): request() returns the transport's response.
ReturnAwaited(response) == Returned(response)

\* Variant of Rethrow: the error wrapped in a typed failure.
RethrowWrapped(error) == Thrown("TransportExhausted", error)

\* The value request() rejects with for a transport error it does not retry.
Rethrow(error) == ThrownAsIs(error)

(***************************************************************************)
(* The endpoint operations                                                 *)
(***************************************************************************)
Endpoints ==
    {"loginAsync", "submitFileAsync", "submitFileOcrAsync", "submitUrlAsync",
     "exportAsync", "startAsync", "deleteAsync", "resendWebhookAsync",
     "getCreditsBalanceAsync", "getUsagesHistoryCsvAsync", "getReleaseNotesAsync",
     "getSupportedFileTypesAsync", "getOCRSupportedLanguagesAsync"}

\* The operations that take an authToken and begin with this.verifyAuthToken(authToken).
TakesCredential(o) ==
    o \in {"submitFileAsync", "submitFileOcrAsync", "submitUrlAsync", "exportAsync",
           "startAsync", "deleteAsync", "resendWebhookAsync",
           "getCreditsBalanceAsync", "getUsagesHistoryCsvAsync"}

\* A request descriptor (AxiosRequestConfig): method, url (its template), the
\* argument sent as data, whether the Authorization bearer header is set, and
\* whether maxBodyLength is Infinity.
Descriptor(method, url, data, bearer, unbounded) ==
    [method |-> method, url |-> url, data |-> data, bearer |-> bearer,
     unbounded |-> unbounded]

NoDescriptor == Descriptor("", "", "", FALSE, FALSE)

\* The descriptor each endpoint operation builds for this.request(...).
ConfigOf(o) ==
    CASE o = "loginAsync" ->
            Descriptor("POST", "/v3/account/login/api", "payload", FALSE, FALSE)
      [] o = "submitFileAsync" ->
            Descriptor("PUT", "/v3/${product}/submit/file/${scanId}", "submission", TRUE, TRUE)
      [] o = "submitFileOcrAsync" ->
            Descriptor("PUT", "/v3/${product}/submit/ocr/${scanId}", "submission", TRUE, TRUE)
      [] o = "submitUrlAsync" ->
            Descriptor("PUT", "/v3/${product}/submit/url/${scanId}", "submission", TRUE, TRUE)
      [] o = "exportAsync" ->
            Descriptor("POST", "/v3/downloads/${scanId}/export/${exportId}", "model", TRUE, TRUE)
      [] o = "startAsync" ->
            Descriptor("PATCH", "/v3/${product}/start", "model", TRUE, TRUE)
      [] o = "deleteAsync" ->
            Descriptor("PATCH", "/v3.1/${product}/delete", "payloads", TRUE, TRUE)
      [] o = "resendWebhookAsync" ->
            Descriptor("POST", "/v3/${product}/scans/${scanId}/webhooks/resend", "null",
                       TRUE, FALSE)
      [] o = "getCreditsBalanceAsync" ->
            Descriptor("GET", "/v3/${product}/credits", "", TRUE, FALSE)
      [] o = "getUsagesHistoryCsvAsync" ->
            Descriptor("GET", "/v3/${product}/usages/history?start=${startDate}&end=${endDate}",
                       "", TRUE, FALSE)
      [] o = "getReleaseNotesAsync" ->
            Descriptor("GET", "/v3/release-logs.json", "", FALSE, FALSE)
      [] o = "getSupportedFileTypesAsync" ->
            Descriptor("GET", "/v3/miscellaneous/supported-file-types", "", FALSE, FALSE)
      [] o = "getOCRSupportedLanguagesAsync" ->
            Descriptor("GET", "/v3/miscellaneous/ocr-languages-list", "", FALSE, FALSE)
      [] OTHER -> NoDescriptor

\* The AxiosInstance each endpoint operation hands to this.request(...):
\* loginAsync passes this.accountApi, the others leave the default, this.api.
RequesterOf(o) == IF o = "loginAsync" THEN "accountApi" ELSE "api"

\* Variant of CatchesRequestError: submitFileOcrAsync given the same try/catch.
CatchesRequestErrorOcrToo(o) == o \in {"submitFileAsync", "submitFileOcrAsync"}

\* The operations that wrap `await this.request(...)` in try/catch and throw
\* new Error(message, { cause: error }).
CatchesRequestError(o) == o = "submitFileAsync"

\* Variant of ChecksRateLimit: deleteAsync without the branch.
ChecksRateLimitWithoutDelete(o) ==
    o \in {"getCreditsBalanceAsync", "getUsagesHistoryCsvAsync", "getReleaseNotesAsync",
           "getSupportedFileTypesAsync", "getOCRSupportedLanguagesAsync"}

\* The operations whose status chain has the isRateLimitResponse branch.
ChecksRateLimit(o) ==
    o \in {"deleteAsync", "getCreditsBalanceAsync", "getUsagesHistoryCsvAsync",
           "getReleaseNotesAsync", "getSupportedFileTypesAsync",
           "getOCRSupportedLanguagesAsync"}

\* The operations that `return response.data` on success (the others `return;`).
ReturnsData(o) ==
    o \in {"loginAsync", "startAsync", "getCreditsBalanceAsync",
           "getUsagesHistoryCsvAsync", "getReleaseNotesAsync",
           "getSupportedFileTypesAsync", "getOCRSupportedLanguagesAsync"}

\* Variant of Classify: the maintenance branch missing.
ClassifyNoMaintenance(o, response) ==
    IF isSuccessStatusCode(response.status)
        THEN Returned(IF ReturnsData(o) THEN response ELSE NoOutcome)
    ELSE IF ChecksRateLimit(o) /\ isRateLimitResponse(response.status)
        THEN Thrown("RateLimitException", NoOutcome)
    ELSE Thrown("CommandException", response)

\* The if / else-if chain on response.status that follows `await this.request(...)`.
Classify(o, response) ==
    IF isSuccessStatusCode(response.status)
        THEN Returned(IF ReturnsData(o) THEN response ELSE NoOutcome)
    ELSE IF isUnderMaintenanceResponse(response.status)
        THEN Thrown("UnderMaintenanceException", NoOutcome)
    ELSE IF ChecksRateLimit(o) /\ isRateLimitResponse(response.status)
        THEN Thrown("RateLimitException", NoOutcome)
    ELSE Thrown("CommandException", response)

\* What the caller of method o gets when request() returns `response`.
OnRequestReturned(o, response) ==
    IF o = "request" THEN Returned(response) ELSE Classify(o, response)

\* Variant of OnRequestThrown: a rejection with status 429 turned into the
\* rate-limit exception of the response classification.
OnRequestThrownAsRateLimit(o, thrown) ==
    IF o \in Endpoints /\ thrown.payload.hasResponse /\ thrown.payload.status = 429
        THEN Thrown("RateLimitException", NoOutcome)
        ELSE IF o \in Endpoints /\ CatchesRequestError(o)
            THEN Thrown("Error", thrown.payload)
            ELSE thrown

\* What the caller of method o gets when request() rejects with `thrown`.
OnRequestThrown(o, thrown) ==
    IF o \in Endpoints /\ CatchesRequestError(o)
        THEN Thrown("Error", thrown.payload)
        ELSE thrown

(***************************************************************************)
(* Inputs                                                                  *)
(***************************************************************************)
\* The retryable classes of an error as section 4.2 of the design lists them:
\* (a) a response with status 429, 500 or 502, (b) a timeout with no response.
\* Used only to keep the history variable allRetryable.
RetryableClass(e) ==
    /\ e.kind = "error"
    /\ \/ e.hasResponse /\ e.status \in {429, 500, 502}
       \/ ~e.hasResponse /\ e.code = "ETIMEDOUT"

\* Date.now() of the call: two hours before the zone's transition, three
\* minutes before it, ten minutes after it.
NowSamples == {m * MsPerMinute : m \in {-120, -3, 10}}

\* authToken['.expires'] minus Date.now(), for an endpoint call.
Leads == {3 * MsPerMinute, 5 * MsPerMinute, 5 * MsPerMinute + 1, 30 * MsPerMinute}

\* The same for a direct verifyAuthToken call: at and just past every margin.
VerifyLeads == {k * MsPerMinute + d : k \in 0..MaxMargin, d \in {0, 1}}

Backoffs == {100, DefaultBackoff}

NoToken == [expires |-> 0]

EndpointInputs ==
    {[op |-> o, now |-> t, token |-> [expires |-> t + l], margin |-> DefaultMargin,
      retries |-> DefaultRetries, backoff |-> DefaultBackoff,
      config |-> NoDescriptor, requester |-> ""] :
        o \in {e \in Endpoints : TakesCredential(e)}, t \in NowSamples, l \in Leads}
    \cup
    {[op |-> o, now |-> 0, token |-> NoToken, margin |-> DefaultMargin,
      retries |-> DefaultRetries, backoff |-> DefaultBackoff,
      config |-> NoDescriptor, requester |-> ""] :
        o \in {e \in Endpoints : ~TakesCredential(e)}}

\* The descriptor handed to a direct request() call.
SampleDescriptor == Descriptor("GET", "/v3/any", "", FALSE, FALSE)

RequestInputs ==
    {[op |-> "request", now |-> 0, token |-> NoToken, margin |-> DefaultMargin,
      retries |-> n, backoff |-> b, config |-> SampleDescriptor, requester |-> r] :
        n \in 0..MaxRetries, b \in Backoffs, r \in {"api", "accountApi"}}

VerifyInputs ==
    {[op |-> "verifyAuthToken", now |-> t, token |-> [expires |-> t + l], margin |-> m,
      retries |-> DefaultRetries, backoff |-> DefaultBackoff,
      config |-> NoDescriptor, requester |-> ""] :
        t \in NowSamples, l \in VerifyLeads, m \in 0..MaxMargin}

Inputs == EndpointInputs \cup RequestInputs \cup VerifyInputs

IdleInput ==
    [op |-> "none", now |-> 0, token |-> NoToken, margin |-> DefaultMargin,
     retries |-> DefaultRetries, backoff |-> DefaultBackoff,
     config |-> NoDescriptor, requester |-> ""]

\* The methods that read the clock, and so the time zone.
ReadsClock(o) == o = "verifyAuthToken" \/ (o \in Endpoints /\ TakesCredential(o))

\* The state in which the calls of `input` (a function on Calls) are about to
\* be invoked in time zone z.
Setup(z, input) ==
    /\ tz = z
    /\ now = [c \in Calls |-> input[c].now]
    /\ op = [c \in Calls |-> input[c].op]
    /\ token = [c \in Calls |-> input[c].token]
    /\ margin = [c \in Calls |-> input[c].margin]
    /\ maxRetries = [c \in Calls |-> input[c].retries]
    /\ initialBackoff = [c \in Calls |-> input[c].backoff]
    /\ config = [c \in Calls |-> input[c].config]
    /\ requester = [c \in Calls |-> input[c].requester]
    /\ sent = [c \in Calls |-> << >>]
    /\ seen = [c \in Calls |-> << >>]
    /\ pc = [c \in Calls |-> IF input[c].op = "none" THEN "idle" ELSE "start"]
    /\ retries = [c \in Calls |-> 0]
    /\ backoff = [c \in Calls |-> 0]
    /\ timer = [c \in Calls |-> 0]
    /\ attempts = [c \in Calls |-> 0]
    /\ delays = [c \in Calls |-> << >>]
    /\ lastOutcome = [c \in Calls |-> NoOutcome]
    /\ allRetryable = [c \in Calls |-> TRUE]
    /\ settled = [c \in Calls |-> Pending]
    /\ result = [c \in Calls |-> Pending]

\* One call, of any method, on any input.
Init ==
    \E z \in Zones, i \in Inputs :
        /\ ReadsClock(i.op) \/ z = ZoneUTC
        /\ Setup(z, [c \in Calls |-> IF c = 1 THEN i ELSE IdleInput])

(***************************************************************************)
(* Steps                                                                   *)
(***************************************************************************)
\* request(config, requester, r, b) run on its own against transport outcomes
\* of the classes `classes`: the attempts it has made and the delays it has
\* waited once those outcomes have arrived; `waiting` says that the delay
\* following the last of them is still running.
RECURSIVE Alone(_, _, _, _)
Alone(r, b, classes, waiting) ==
    IF classes = << >>
        THEN [attempts |-> 1, delays |-> << >>]
    ELSE IF Head(classes) = "retryable" /\ ~Exhausted(r)
        THEN IF Tail(classes) = << >> /\ waiting
            THEN [attempts |-> 1, delays |-> << >>]
            ELSE LET rest == Alone(NextRetries(r), NextBackoff(b), Tail(classes), waiting)
                 IN  [attempts |-> 1 + rest.attempts, delays |-> <<b>> \o rest.delays]
    ELSE [attempts |-> 1, delays |-> << >>]

RECURSIVE Sum(_)
Sum(s) == IF s = << >> THEN 0 ELSE Head(s) + Sum(Tail(s))

\* The earliest instant at which a call invoked at t sends the attempt that
\* follows the delays `waited` (the transport's own time comes on top).
AttemptInstant(t, waited) == t + Sum(waited)

\* Variant of RechecksToken: the guard run again before every retry of an
\* operation that takes a credential.
RechecksTokenOnRetry(o) == o \in Endpoints /\ TakesCredential(o)

\* request() holds no call of verifyAuthToken: the guard runs in the endpoint
\* operation, before this.request(...), and a retry is sent without it.
RechecksToken(o) == FALSE

\* No other call's backoff wait is holding call d up.
Runnable(d) == \A c \in Calls \ {d} : pc[c] = "backoff" => ~Suspends(c, d)

\* The method is called and runs to its first await: the token guard, and for
\* a request the first requester(config) call.
Invoke(c) ==
    /\ pc[c] = "start"
    /\ Runnable(c)
    /\ IF ReadsClock(op[c]) /\ verifyAuthTokenThrows(tz, now[c], token[c], margin[c])
       THEN /\ result' = [result EXCEPT ![c] = Thrown("AuthExipredException", NoOutcome)]
            /\ pc' = [pc EXCEPT ![c] = "done"]
            /\ UNCHANGED <<retries, backoff, attempts, config, requester, sent>>
       ELSE IF op[c] = "verifyAuthToken"
       THEN /\ result' = [result EXCEPT ![c] = Returned(NoOutcome)]
            /\ pc' = [pc EXCEPT ![c] = "done"]
            /\ UNCHANGED <<retries, backoff, attempts, config, requester, sent>>
       ELSE /\ retries' = UpdateOwn(retries, c, maxRetries[c])
            /\ backoff' = UpdateOwn(backoff, c, initialBackoff[c])
            /\ config' = [config EXCEPT
                             ![c] = IF op[c] \in Endpoints THEN ConfigOf(op[c]) ELSE @]
            /\ requester' = [requester EXCEPT
                                ![c] = IF op[c] \in Endpoints THEN RequesterOf(op[c]) ELSE @]
            /\ sent' = [sent EXCEPT
                           ![c] = <<[config |-> config'[c], requester |-> requester'[c]]>>]
            /\ attempts' = [attempts EXCEPT ![c] = 1]
            /\ pc' = [pc EXCEPT ![c] = "inflight"]
            /\ UNCHANGED result
    /\ UNCHANGED <<tz, now, op, token, margin, maxRetries, initialBackoff, timer,
                   delays, lastOutcome, allRetryable, settled, seen>>

\* `await requester(config)` returns a response: request() returns it and the
\* method's continuation runs.
TransportReturns(c) ==
    /\ pc[c] = "inflight"
    /\ Runnable(c)
    /\ \E out \in {o \in TransportOutcomes(attempts[c]) : o.kind = "response"} :
        /\ lastOutcome' = [lastOutcome EXCEPT ![c] = out]
        /\ seen' = [seen EXCEPT ![c] = Append(@, OutcomeClass(out))]
        /\ settled' = [settled EXCEPT ![c] = ReturnAwaited(out)]
        /\ result' = [result EXCEPT ![c] = OnRequestReturned(op[c], ReturnAwaited(out).payload)]
    /\ pc' = [pc EXCEPT ![c] = "done"]
    /\ UNCHANGED <<tz, now, op, token, margin, maxRetries, initialBackoff, retries,
                   backoff, timer, attempts, delays, allRetryable, config, requester, sent>>

\* `await requester(config)` raises: the catch block of request().
TransportRaises(c) ==
    /\ pc[c] = "inflight"
    /\ Runnable(c)
    /\ \E error \in {o \in TransportOutcomes(attempts[c]) : o.kind = "error"} :
        /\ lastOutcome' = [lastOutcome EXCEPT ![c] = error]
        /\ seen' = [seen EXCEPT ![c] = Append(@, OutcomeClass(error))]
        /\ allRetryable' = [allRetryable EXCEPT ![c] = @ /\ RetryableClass(error)]
        /\ IF ~Exhausted(retries[c]) /\ isRetryable(error)
           THEN /\ timer' = [timer EXCEPT ![c] = backoff[c]]
                /\ pc' = [pc EXCEPT ![c] = "backoff"]
                /\ UNCHANGED <<settled, result>>
           ELSE /\ settled' = [settled EXCEPT ![c] = Rethrow(error)]
                /\ result' = [result EXCEPT ![c] = OnRequestThrown(op[c], Rethrow(error))]
                /\ pc' = [pc EXCEPT ![c] = "done"]
                /\ UNCHANGED timer
    /\ UNCHANGED <<tz, now, op, token, margin, maxRetries, initialBackoff, retries,
                   backoff, attempts, delays, config, requester, sent>>

\* The setTimeout of the backoff fires: request() calls itself with
\* retries - 1 and backoff * 2, which calls requester(config) again.
TimerFires(c) ==
    /\ pc[c] = "backoff"
    /\ Runnable(c)
    /\ delays' = [delays EXCEPT ![c] = Append(@, timer[c])]
    /\ timer' = [timer EXCEPT ![c] = 0]
    /\ IF /\ RechecksToken(op[c])
          /\ verifyAuthTokenThrows(tz, AttemptInstant(now[c], delays'[c]), token[c],
                                   margin[c])
       THEN /\ settled' = [settled EXCEPT ![c] = Thrown("AuthExipredException", NoOutcome)]
            /\ result' = [result EXCEPT ![c] = Thrown("AuthExipredException", NoOutcome)]
            /\ pc' = [pc EXCEPT ![c] = "done"]
            /\ UNCHANGED <<retries, backoff, config, requester, sent, attempts>>
       ELSE /\ retries' = UpdateOwn(retries, c, NextRetries(retries[c]))
            /\ backoff' = UpdateOwn(backoff, c, NextBackoff(backoff[c]))
            /\ config' = [config EXCEPT ![c] = PassConfig(@)]
            /\ requester' = [requester EXCEPT ![c] = PassRequester(@)]
            /\ sent' = [sent EXCEPT
                           ![c] = Append(@, [config |-> config'[c],
                                             requester |-> requester'[c]])]
            /\ attempts' = [attempts EXCEPT ![c] = @ + 1]
            /\ pc' = [pc EXCEPT ![c] = "inflight"]
            /\ UNCHANGED <<settled, result>>
    /\ UNCHANGED <<tz, now, op, token, margin, maxRetries, initialBackoff,
                   lastOutcome, allRetryable, seen>>

Next ==
    \E c \in Calls :
        \/ Invoke(c)
        \/ TransportReturns(c)
        \/ TransportRaises(c)
        \/ TimerFires(c)

Spec == Init /\ [][Next]_vars

\* The scheduling the liveness of a call rests on: a method that was called
\* runs, the transport answers every attempt (with a response or an error),
\* and every armed backoff timer fires.
Fairness ==
    \A c \in Calls :
        /\ WF_vars(Invoke(c))
        /\ WF_vars(TransportReturns(c) \/ TransportRaises(c))
        /\ WF_vars(TimerFires(c))

LiveSpec == Spec /\ Fairness

\* Two direct request() calls started together, each with its own retry
\* budget and backoff, their steps interleaved in any order.
ConcInit ==
    \E n1 \in 0..MaxRetries, n2 \in 1..2 :
        Setup(ZoneUTC,
              [c \in Calls |->
                  [op |-> "request", now |-> 0, token |-> NoToken,
                   margin |-> DefaultMargin,
                   retries |-> IF c = 1 THEN n1 ELSE n2,
                   backoff |-> IF c = 1 THEN 100 ELSE DefaultBackoff,
                   config |-> SampleDescriptor,
                   requester |-> IF c = 1 THEN "api" ELSE "accountApi"]])

ConcSpec == ConcInit /\ [][Next]_vars

TypeOK ==
    /\ tz \in Zones
    /\ \A c \in Calls :
        /\ pc[c] \in {"idle", "start", "inflight", "backoff", "done"}
        /\ retries[c] \in 0..DefaultRetries
        /\ attempts[c] \in 0..(DefaultRetries + 1)
        /\ Len(delays[c]) <= DefaultRetries

(***************************************************************************)
(* Vocabulary of the properties                                            *)
(***************************************************************************)
RECURSIVE Pow2(_)
Pow2(n) == IF n = 0 THEN 1 ELSE 2 * Pow2(n - 1)

\* Call c goes through request().
MakesRequest(c) == op[c] = "request" \/ op[c] \in Endpoints

\* Call c's latest transport outcome is a raised error / one with a response
\* of status 429, 500 or 502 / a timeout that carries no response.
LastIsError(c) == lastOutcome[c].kind = "error"
LastIsStatusRetryable(c) ==
    LastIsError(c) /\ lastOutcome[c].hasResponse /\ lastOutcome[c].status \in {429, 500, 502}
LastIsTimeout(c) ==
    LastIsError(c) /\ ~lastOutcome[c].hasResponse /\ lastOutcome[c].code = "ETIMEDOUT"
LastIsNonRetryable(c) == LastIsError(c) /\ ~RetryableClass(lastOutcome[c])

\* request() of call c has rejected with the latest transport error itself.
RaisedLast(c) ==
    /\ pc[c] = "done"
    /\ settled[c] = [kind |-> "thrown", exc |-> "AxiosError", payload |-> lastOutcome[c]]
    /\ lastOutcome[c].attempt = attempts[c]

\* Call c is waiting out the current backoff after its latest error.
WaitingAfterLast(c) ==
    /\ pc[c] = "backoff"
    /\ timer[c] = backoff[c]
    /\ attempts[c] = lastOutcome[c].attempt
    /\ Len(delays[c]) = attempts[c] - 1
    /\ settled[c] = Pending
    /\ result[c] = Pending

\* Call c has waited that backoff and sent the attempt after its latest error.
ResentAfterLast(c) ==
    /\ pc[c] = "inflight"
    /\ attempts[c] = lastOutcome[c].attempt + 1
    /\ Len(delays[c]) = lastOutcome[c].attempt
    /\ settled[c] = Pending
    /\ result[c] = Pending

(***************************************************************************)
(* C1. Retry count: when every attempt of a request call with              *)
(* maxRetries = N raises an error of a retryable class (status 429, 500 or *)
(* 502, or a timeout without response), the call makes exactly N + 1       *)
(* attempts and then raises the error.                                     *)
(***************************************************************************)
C1_RetryCount ==
    \A c \in Calls :
        (MakesRequest(c) /\ pc[c] = "done" /\ LastIsError(c) /\ allRetryable[c])
            => (attempts[c] = maxRetries[c] + 1 /\ RaisedLast(c))

(***************************************************************************)
(* C2. Backoff doubling: the k-th delay of a call, waited before attempt   *)
(* k + 1, is initialBackoff * 2^(k-1); there is one delay before every     *)
(* attempt but the first, and none before the first.                       *)
(***************************************************************************)
C2_BackoffDoubling ==
    \A c \in Calls :
        /\ \A k \in 1..Len(delays[c]) : delays[c][k] = initialBackoff[c] * Pow2(k - 1)
        /\ attempts[c] >= 1 => Len(delays[c]) = attempts[c] - 1
        /\ attempts[c] = 0 => delays[c] = << >>
        /\ pc[c] = "backoff" => timer[c] = initialBackoff[c] * Pow2(attempts[c] - 1)

C2_Witness ==
    \E c \in Calls :
        /\ Len(delays[c]) = 3
        /\ delays[c] = <<initialBackoff[c], 2 * initialBackoff[c], 4 * initialBackoff[c]>>
        /\ pc[c] = "inflight"

(***************************************************************************)
(* C3. An error carrying a response of status 429, 500 or 502 is retried   *)
(* whenever at least one attempt remains: the call waits the current       *)
(* backoff and then sends another attempt; it is raised only when no       *)
(* attempt remains.                                                        *)
(***************************************************************************)
C3_StatusRetried ==
    \A c \in Calls :
        LastIsStatusRetryable(c) =>
            \/ WaitingAfterLast(c) /\ retries[c] >= 1
            \/ ResentAfterLast(c)
            \/ RaisedLast(c) /\ retries[c] < 1

C3_Witness ==
    \E c \in Calls :
        /\ LastIsStatusRetryable(c)
        /\ lastOutcome[c].status = 429
        /\ ResentAfterLast(c)
        /\ delays[c] = <<initialBackoff[c]>>

(***************************************************************************)
(* C4. A timeout error that carries no response is retried whenever at     *)
(* least one attempt remains, like the errors of C3.                       *)
(***************************************************************************)
C4_TimeoutRetried ==
    \A c \in Calls :
        LastIsTimeout(c) =>
            \/ WaitingAfterLast(c) /\ retries[c] >= 1
            \/ ResentAfterLast(c)
            \/ RaisedLast(c) /\ retries[c] < 1

(***************************************************************************)
(* C5. An error that is not of a retryable class (status 404 or 503, a DNS *)
(* failure) is raised by the attempt on which it occurs, whatever number   *)
(* of attempts remains: no delay is waited for it and no attempt follows.  *)
(***************************************************************************)
C5_NonRetryableRaised ==
    \A c \in Calls :
        LastIsNonRetryable(c) =>
            /\ RaisedLast(c)
            /\ timer[c] = 0
            /\ Len(delays[c]) = attempts[c] - 1

C5_Witness ==
    \E c \in Calls :
        /\ LastIsNonRetryable(c)
        /\ lastOutcome[c].status = 404
        /\ attempts[c] = 1
        /\ retries[c] = DefaultRetries
        /\ RaisedLast(c)

(***************************************************************************)
(* C6. When an attempt raises and no attempt remains, request() rejects    *)
(* with that same error object, the last attempt's, not wrapped and not    *)
(* converted.                                                              *)
(***************************************************************************)
C6_ExhaustedRethrown ==
    \A c \in Calls :
        (LastIsError(c) /\ pc[c] # "inflight" /\ retries[c] < 1) => RaisedLast(c)

C6_Witness ==
    \E c \in Calls :
        /\ LastIsStatusRetryable(c)
        /\ retries[c] = 0
        /\ maxRetries[c] >= 2
        /\ attempts[c] = maxRetries[c] + 1
        /\ RaisedLast(c)

(***************************************************************************)
(* C7. Propagation through the endpoint operations.                        *)
(*                                                                         *)
(* C7_Unwrapped states it for every operation: a transport error that      *)
(* request() raises reaches the operation's caller as that error object.   *)
(* C7_UnwrappedExceptSubmitFile: that holds of every operation but         *)
(* submitFileAsync, whose caller gets a new Error with the transport error *)
(* as its cause.                                                           *)
(***************************************************************************)
C7_Unwrapped ==
    \A c \in Calls :
        (op[c] \in Endpoints /\ settled[c].kind = "thrown") =>
            (pc[c] = "done" /\ result[c] = ThrownAsIs(lastOutcome[c]))

C7_UnwrappedExceptSubmitFile ==
    \A c \in Calls :
        (op[c] \in Endpoints /\ settled[c].kind = "thrown") =>
            /\ pc[c] = "done"
            /\ op[c] # "submitFileAsync" => result[c] = ThrownAsIs(lastOutcome[c])
            /\ op[c] = "submitFileAsync" =>
                   result[c] = [kind |-> "thrown", exc |-> "Error", payload |-> lastOutcome[c]]

C7_Witness ==
    \E c \in Calls :
        /\ op[c] = "submitFileAsync"
        /\ RaisedLast(c)
        /\ result[c].exc = "Error"
        /\ result[c].payload = lastOutcome[c]

(***************************************************************************)
(* C8. verifyAuthToken(token, margin) throws AuthExipredException exactly  *)
(* when the token's expiry instant is at or before now + margin minutes,   *)
(* and returns normally when it is later; the endpoint operations call it  *)
(* with the default margin of 5.                                           *)
(***************************************************************************)
\* The token of call c expires at or before now + margin minutes.
ExpiredWithinMargin(c) == token[c].expires <= now[c] + margin[c] * MsPerMinute

C8_VerifyBoundary ==
    \A c \in Calls :
        (ReadsClock(op[c]) /\ pc[c] # "start") =>
            /\ op[c] \in Endpoints => margin[c] = 5
            /\ ExpiredWithinMargin(c) =>
                   (pc[c] = "done" /\ result[c] = Thrown("AuthExipredException", NoOutcome))
            /\ ~ExpiredWithinMargin(c) => result[c].exc # "AuthExipredException"

\* Where the time zone has no offset transition the boundary is as C8 states it.
C8_BoundaryWithoutTransition == tz = ZoneUTC => C8_VerifyBoundary

(***************************************************************************)
(* C9. In every endpoint operation that takes a credential the guard runs  *)
(* before the first transport attempt: a credential that expires within    *)
(* the safety margin ends the operation with AuthExipredException, with no *)
(* transport call made and nothing retried.                                *)
(***************************************************************************)
C9_GuardBeforeTransport ==
    \A c \in Calls :
        (op[c] \in Endpoints /\ TakesCredential(op[c]) /\ ExpiredWithinMargin(c)
            /\ pc[c] # "start") =>
            /\ pc[c] = "done"
            /\ result[c] = Thrown("AuthExipredException", NoOutcome)
            /\ attempts[c] = 0
            /\ delays[c] = << >>

\* Whenever the guard does throw, no transport call was made or is made.
C9_AuthExpiredMeansNoTransport ==
    \A c \in Calls :
        result[c].exc = "AuthExipredException" =>
            (pc[c] = "done" /\ attempts[c] = 0 /\ delays[c] = << >> /\ settled[c] = Pending)

(***************************************************************************)
(* C10. Classification of a returned response by its status, in order:     *)
(* 200..299 is success; otherwise the maintenance status gives             *)
(* UnderMaintenanceException; otherwise every status but the rate-limit    *)
(* one gives CommandException carrying that response.                      *)
(***************************************************************************)
C10_Classification ==
    \A c \in Calls :
        (op[c] \in Endpoints /\ settled[c].kind = "returned") =>
            LET response == settled[c].payload
                status == response.status
            IN  /\ pc[c] = "done"
                /\ response = lastOutcome[c]
                /\ status \in 200..299 => result[c].kind = "returned"
                /\ (status \notin 200..299 /\ status = 512) =>
                       result[c] = Thrown("UnderMaintenanceException", NoOutcome)
                /\ (status \notin 200..299 /\ status # 512 /\ status # RateLimitStatus) =>
                       result[c] = [kind |-> "thrown", exc |-> "CommandException",
                                    payload |-> response]

C10_Witness ==
    \E c \in Calls :
        /\ op[c] = "getCreditsBalanceAsync"
        /\ settled[c].kind = "returned"
        /\ settled[c].payload.status = 512
        /\ result[c].exc = "UnderMaintenanceException"

(***************************************************************************)
(* C11. The rate-limit status of a returned response.                      *)
(*                                                                         *)
(* C11_RateLimitedEverywhere states it for every endpoint operation: the   *)
(* reserved rate-limit status yields RateLimitException.                   *)
(* C11_RateLimitedWhereChecked: that holds of deleteAsync,                 *)
(* getCreditsBalanceAsync, getUsagesHistoryCsvAsync, getReleaseNotesAsync, *)
(* getSupportedFileTypesAsync and getOCRSupportedLanguagesAsync; the other *)
(* seven operations answer it with CommandException carrying the response. *)
(***************************************************************************)
\* request() of call c returned a response with the rate-limit status.
ReturnedRateLimit(c) ==
    /\ op[c] \in Endpoints
    /\ settled[c].kind = "returned"
    /\ settled[c].payload = lastOutcome[c]
    /\ lastOutcome[c].status = RateLimitStatus

C11_RateLimitedEverywhere ==
    \A c \in Calls :
        ReturnedRateLimit(c) => result[c] = Thrown("RateLimitException", NoOutcome)

C11_RateLimitedWhereChecked ==
    \A c \in Calls :
        ReturnedRateLimit(c) =>
            IF op[c] \in {"deleteAsync", "getCreditsBalanceAsync",
                          "getUsagesHistoryCsvAsync", "getReleaseNotesAsync",
                          "getSupportedFileTypesAsync", "getOCRSupportedLanguagesAsync"}
            THEN result[c] = [kind |-> "thrown", exc |-> "RateLimitException",
                              payload |-> NoOutcome]
            ELSE result[c] = [kind |-> "thrown", exc |-> "CommandException",
                              payload |-> lastOutcome[c]]

C11_Witness ==
    \E c \in Calls :
        /\ ReturnedRateLimit(c)
        /\ op[c] = "deleteAsync"
        /\ result[c].exc = "RateLimitException"

(***************************************************************************)
(* C12. A response that the transport returns, whatever its status, ends   *)
(* the request at once: request() returns that response, no delay is       *)
(* waited for it, no attempt follows it, and the operation's outcome is    *)
(* decided then and there, with no step of the call left to change it.     *)
(***************************************************************************)
\* Some step of call c can be taken.
StepOf(c) == Invoke(c) \/ TransportReturns(c) \/ TransportRaises(c) \/ TimerFires(c)

C12_ResponseEndsRequest ==
    \A c \in Calls :
        lastOutcome[c].kind = "response" =>
            /\ pc[c] = "done"
            /\ settled[c] = [kind |-> "returned", exc |-> "", payload |-> lastOutcome[c]]
            /\ lastOutcome[c].attempt = attempts[c]
            /\ timer[c] = 0
            /\ Len(delays[c]) = attempts[c] - 1
            /\ result[c] # Pending
            /\ ~ENABLED StepOf(c)

C12_Witness ==
    \E c \in Calls :
        /\ op[c] = "submitFileOcrAsync"
        /\ lastOutcome[c].kind = "response"
        /\ lastOutcome[c].status = 512
        /\ attempts[c] = 1
        /\ delays[c] = << >>
        /\ result[c].exc = "UnderMaintenanceException"

(***************************************************************************)
(* C13. Retry, then a response: while every attempt so far, j <= maxRetries *)
(* of them, has raised an error of a retryable class, request() raises     *)
(* nothing and goes on to attempt j + 1; when that attempt returns a       *)
(* response, request() returns it after exactly j + 1 attempts and the j   *)
(* delays initialBackoff, 2 * initialBackoff, ..., initialBackoff*2^(j-1). *)
(***************************************************************************)
C13_RetryThenResponse ==
    \A c \in Calls :
        (MakesRequest(c) /\ allRetryable[c]) =>
            /\ (LastIsError(c) /\ attempts[c] <= maxRetries[c]) =>
                   settled[c].kind # "thrown"
            /\ lastOutcome[c].kind = "response" =>
                   /\ settled[c] = [kind |-> "returned", exc |-> "",
                                    payload |-> lastOutcome[c]]
                   /\ attempts[c] = lastOutcome[c].attempt
                   /\ Len(delays[c]) = attempts[c] - 1
                   /\ \A k \in 1..Len(delays[c]) :
                          delays[c][k] = initialBackoff[c] * Pow2(k - 1)

(***************************************************************************)
(* C14. Termination: provided the transport answers every attempt and      *)
(* every backoff timer fires, a request call in progress eventually ends,  *)
(* by returning a response or raising an error; and the attempt budget is  *)
(* what bounds it: a call never makes more than maxRetries + 1 attempts.   *)
(***************************************************************************)
RequestInProgress(c) == pc[c] \in {"inflight", "backoff"}
RequestEnded(c) == pc[c] = "done" /\ settled[c].kind \in {"returned", "thrown"}

WithinBudget ==
    \A c \in Calls :
        /\ attempts[c] <= maxRetries[c] + 1
        /\ RequestInProgress(c) => retries[c] + attempts[c] = maxRetries[c] + 1

C14_Terminates ==
    /\ \A c \in Calls : RequestInProgress(c) ~> RequestEnded(c)
    /\ []WithinBudget

C14_Witness ==
    \E c \in Calls :
        /\ RequestEnded(c)
        /\ maxRetries[c] = DefaultRetries
        /\ attempts[c] = DefaultRetries + 1
        /\ Len(delays[c]) = DefaultRetries

(***************************************************************************)
(* C17. The remaining-attempts counter of a request call started with      *)
(* maxRetries >= 0 is never negative; it is maxRetries less one for every  *)
(* retry made, so each retry lowers it by exactly one and nothing raises   *)
(* it; and no retry is started (no backoff armed) when it is 0.            *)
(***************************************************************************)
C17_CounterNeverNegative ==
    \A c \in Calls :
        /\ retries[c] >= 0
        /\ retries[c] <= maxRetries[c]
        /\ attempts[c] >= 1 => retries[c] = maxRetries[c] - Len(delays[c])
        /\ pc[c] = "backoff" => retries[c] >= 1

C17_Witness ==
    \E c \in Calls :
        /\ op[c] = "request"
        /\ maxRetries[c] = MaxRetries
        /\ retries[c] = 0
        /\ Len(delays[c]) = MaxRetries
        /\ LastIsStatusRetryable(c)
        /\ lastOutcome[c].attempt = MaxRetries + 1
        /\ pc[c] = "done"

(***************************************************************************)
(* C18. The descriptor is never changed: every attempt of a call, the      *)
(* first and each retry, is made on the identical descriptor (method, url, *)
(* data, headers, maxBodyLength) and with the transport instance the call  *)
(* was started with (this.accountApi for loginAsync, this.api for the      *)
(* other operations).                                                      *)
(***************************************************************************)
C18_SameDescriptor ==
    \A c \in Calls :
        /\ Len(sent[c]) = attempts[c]
        /\ \A k \in 1..Len(sent[c]) : sent[c][k] = sent[c][1]
        /\ (op[c] \in Endpoints /\ attempts[c] >= 1) =>
               /\ sent[c][1].requester =
                      (IF op[c] = "loginAsync" THEN "accountApi" ELSE "api")
               /\ sent[c][1].config.method \in {"GET", "POST", "PUT", "PATCH"}
               /\ sent[c][1].config.bearer = TakesCredential(op[c])
        /\ (op[c] = "request" /\ attempts[c] >= 1) =>
               sent[c][1].config = SampleDescriptor

C18_Witness ==
    \E c \in Calls :
        /\ op[c] = "loginAsync"
        /\ Len(sent[c]) = 3
        /\ sent[c][3] = [config |-> ConfigOf("loginAsync"), requester |-> "accountApi"]
        /\ pc[c] = "inflight"

(***************************************************************************)
(* C19. The transport's 429 and the rate-limit signal of a response are    *)
(* two separate checks.  An error raised with status 429 is retried, or,   *)
(* with no attempt left, request() rejects with that very error; the       *)
(* operation never turns it into RateLimitException.  RateLimitException   *)
(* comes only from a response the transport returned without raising.      *)
(***************************************************************************)
LastIsRaised429(c) ==
    LastIsError(c) /\ lastOutcome[c].hasResponse /\ lastOutcome[c].status = 429

C19_TwoSignals ==
    \A c \in Calls :
        /\ LastIsRaised429(c) =>
               /\ result[c].exc # "RateLimitException"
               /\ pc[c] \in {"backoff", "inflight", "done"}
               /\ pc[c] = "done" =>
                      /\ retries[c] = 0
                      /\ settled[c] = ThrownAsIs(lastOutcome[c])
                      /\ result[c].kind = "thrown"
                      /\ result[c].payload = lastOutcome[c]
        /\ result[c].exc = "RateLimitException" =>
               /\ lastOutcome[c].kind = "response"
               /\ settled[c] = Returned(lastOutcome[c])

C19_Witness ==
    \E c \in Calls :
        /\ op[c] = "getUsagesHistoryCsvAsync"
        /\ LastIsRaised429(c)
        /\ pc[c] = "done"
        /\ attempts[c] = DefaultRetries + 1
        /\ result[c] = ThrownAsIs(lastOutcome[c])

(***************************************************************************)
(* C20. Only the latest error decides.  When, after at least one retried   *)
(* error, an attempt raises an error that is not of a retryable class      *)
(* while attempts remain, request() rejects at once with that latest       *)
(* error: the counter is left above zero, no delay is started, no further  *)
(* attempt is sent, and the error is the one of the last attempt.          *)
(***************************************************************************)
C20_LatestErrorDecides ==
    \A c \in Calls :
        (LastIsNonRetryable(c) /\ attempts[c] >= 2 /\ retries[c] >= 1) =>
            /\ pc[c] = "done"
            /\ settled[c].kind = "thrown"
            /\ settled[c].payload = lastOutcome[c]
            /\ settled[c].payload.attempt = attempts[c]
            /\ Len(delays[c]) = attempts[c] - 1
            /\ timer[c] = 0
            /\ retries[c] = maxRetries[c] - Len(delays[c])

C20_Witness ==
    \E c \in Calls :
        /\ LastIsNonRetryable(c)
        /\ lastOutcome[c].status = 404
        /\ attempts[c] = 3
        /\ retries[c] = 1
        /\ pc[c] = "done"

(***************************************************************************)
(* C15. Concurrent calls share no retry state.  In every interleaving of   *)
(* two calls, a step of one call leaves the other call's remaining-        *)
(* attempts counter and current backoff as they were, and each call's      *)
(* number of attempts and sequence of delays are those of request() run on *)
(* its own against the outcomes that call has received.                    *)
(***************************************************************************)
SameAsAlone ==
    \A c \in Calls :
        (MakesRequest(c) /\ attempts[c] >= 1) =>
            LET alone == Alone(maxRetries[c], initialBackoff[c], seen[c],
                               pc[c] = "backoff")
            IN  /\ attempts[c] = alone.attempts
                /\ delays[c] = alone.delays

OthersRetryStateKept ==
    \A c \in Calls : \A d \in Calls \ {c} :
        (pc'[c] # pc[c] /\ pc'[d] = pc[d]) =>
            /\ retries'[d] = retries[d]
            /\ backoff'[d] = backoff[d]

C15_NoSharedRetryState == []SameAsAlone /\ [][OthersRetryStateKept]_vars

C15_Witness ==
    /\ attempts[1] = 3 /\ delays[1] = <<100, 200>>
    /\ retries[1] = 0 /\ backoff[1] = 400
    /\ attempts[2] = 2 /\ delays[2] = <<DefaultBackoff>>
    /\ retries[2] = 1 /\ backoff[2] = 2 * DefaultBackoff
    /\ pc[1] = "inflight" /\ pc[2] = "inflight"

(***************************************************************************)
(* C16. A backoff wait suspends only the call that is retrying.  While a   *)
(* call is waiting out its delay, every other call that is under way can   *)
(* take its next step: be invoked, receive a response or an error for the  *)
(* attempt in flight (and so return or raise), or have its own timer fire  *)
(* and send its next attempt.                                              *)
(***************************************************************************)
C16_WaitSuspendsOnlyItself ==
    \A c \in Calls : \A d \in Calls \ {c} :
        pc[c] = "backoff" =>
            /\ pc[d] = "start" => ENABLED Invoke(d)
            /\ pc[d] = "inflight" =>
                   (ENABLED TransportReturns(d)) /\ (ENABLED TransportRaises(d))
            /\ pc[d] = "backoff" => ENABLED TimerFires(d)

C16_Witness ==
    /\ pc[1] = "backoff" /\ timer[1] = 100
    /\ pc[2] = "inflight" /\ attempts[2] = 2

(***************************************************************************)
(* C21. Whatever the transport outcomes are (retryable errors, other       *)
(* errors, responses, in any order), a request call started with           *)
(* maxRetries = N >= 0 makes at least 1 and at most N + 1 attempts, and    *)
(* the number of backoff delays it has waited is the number of attempts    *)
(* less one; when it has ended no delay is left running.                   *)
(***************************************************************************)
EnteredRequest(c) ==
    MakesRequest(c) /\ pc[c] \in {"inflight", "backoff", "done"}
                    /\ result[c].exc # "AuthExipredException"

C21_AttemptBounds ==
    \A c \in Calls :
        EnteredRequest(c) =>
            /\ attempts[c] >= 1
            /\ attempts[c] <= maxRetries[c] + 1
            /\ Len(delays[c]) = attempts[c] - 1
            /\ lastOutcome[c].kind # "none" => lastOutcome[c].attempt <= maxRetries[c] + 1
            /\ pc[c] = "done" => timer[c] = 0 /\ lastOutcome[c].attempt = attempts[c]

C21_Witness ==
    \E c \in Calls :
        /\ op[c] = "request"
        /\ maxRetries[c] = MaxRetries
        /\ pc[c] = "done"
        /\ attempts[c] = 2
        /\ delays[c] = <<initialBackoff[c]>>
        /\ lastOutcome[c].kind = "response"
        /\ seen[c] = <<"retryable", "response">>

(***************************************************************************)
(* C22. The token guard runs once per endpoint operation, before the first *)
(* attempt.  AuthExipredException is raised only by a call that has made   *)
(* no transport attempt; a call that has made one passed the guard at the  *)
(* instant it was invoked; and every backoff that ends is followed by the  *)
(* next attempt with no check of the credential in between, so an attempt  *)
(* is sent even when the delays waited have carried the call past the      *)
(* credential's expiry.                                                    *)
(***************************************************************************)
GuardBeforeFirstAttemptOnly ==
    \A c \in Calls :
        /\ result[c].exc = "AuthExipredException" =>
               /\ attempts[c] = 0
               /\ sent[c] = << >>
               /\ delays[c] = << >>
               /\ lastOutcome[c] = NoOutcome
        /\ (op[c] \in Endpoints /\ TakesCredential(op[c]) /\ attempts[c] >= 1) =>
               ~verifyAuthTokenThrows(tz, now[c], token[c], margin[c])

RetrySentUnchecked ==
    \A c \in Calls :
        (pc[c] = "backoff" /\ pc'[c] # pc[c]) =>
            /\ pc'[c] = "inflight"
            /\ attempts'[c] = attempts[c] + 1
            /\ Len(sent'[c]) = attempts'[c]
            /\ result'[c] = Pending

C22_GuardOncePerOperation ==
    []GuardBeforeFirstAttemptOnly /\ [][RetrySentUnchecked]_vars

\* An attempt of exportAsync in flight at or after the credential's expiry.
C22_Witness ==
    \E c \in Calls :
        /\ op[c] = "exportAsync"
        /\ tz = ZoneUTC
        /\ pc[c] = "inflight"
        /\ attempts[c] >= 2
        /\ now[c] < token[c].expires
        /\ AttemptInstant(now[c], delays[c]) >= token[c].expires

====
